---- MODULE Spec2Model ----
(***************************************************************************)
(* Image references and content digests of oci-spec-rs:                    *)
(*   src/src/distribution/reference.rs   Reference, ParseError,            *)
(*                                       split_domain                      *)
(*   src/src/image/digest.rs             Digest, DigestAlgorithm           *)
(* Text is a sequence of one-character strings, so that length, slicing    *)
(* and character classes are computed as the code computes them.  All      *)
(* text is ASCII, where Rust's byte length is the number of characters.    *)
(***************************************************************************)
EXTENDS Integers, Sequences, FiniteSets, TLC

VARIABLES input, result, origin, prev, dinput, dresult, sresult,
          widened, narrowed,
          held, made, history, last, ops,
          pc, tinput, tresult, once, RE

conversions == <<widened, narrowed>>

threads == <<pc, tinput, tresult, once, RE>>

object == <<held, made, history, last, ops>>

vars ==
    <<input, result, origin, prev, dinput, dresult, sresult, conversions, object,
      threads>>

----------------------------------------------------------------------------
(* Characters and text helpers (Rust str methods).                         *)

Lower == {"a","b","c","d","e","f","g","h","i","j","k","l","m",
          "n","o","p","q","r","s","t","u","v","w","x","y","z"}

Upper == {"A","B","C","D","E","F","G","H","I","J","K","L","M",
          "N","O","P","Q","R","S","T","U","V","W","X","Y","Z"}

Digit == {"0","1","2","3","4","5","6","7","8","9"}

LowerAlnum == Lower \cup Digit

Alnum == Lower \cup Upper \cup Digit

\* the text made of n copies of the character c
Rep(c, n) == [i \in 1..n |-> c]

\* str::contains(char)
Contains(s, c) == \E i \in 1..Len(s) : s[i] = c

\* str::find(char), 1-based; 0 when the character does not occur
IndexOf(s, c) ==
    LET P == {i \in 1..Len(s) : s[i] = c}
    IN  IF P = {} THEN 0 ELSE CHOOSE i \in P : \A j \in P : i <= j

\* the last position of c in s; 0 when the character does not occur
LastIndexOf(s, c) ==
    LET P == {i \in 1..Len(s) : s[i] = c}
    IN  IF P = {} THEN 0 ELSE CHOOSE i \in P : \A j \in P : j <= i

\* str::find over a set of characters
IndexOfAny(s, cs) ==
    LET P == {i \in 1..Len(s) : s[i] \in cs}
    IN  IF P = {} THEN 0 ELSE CHOOSE i \in P : \A j \in P : i <= j

Before(s, i) == SubSeq(s, 1, i - 1)

After(s, i) == SubSeq(s, i + 1, Len(s))

\* str::split over a set of separator characters: always at least one part
RECURSIVE Split(_, _)
Split(s, cs) ==
    LET i == IndexOfAny(s, cs)
    IN  IF i = 0 THEN <<s>>
        ELSE <<Before(s, i)>> \o Split(After(s, i), cs)

AllIn(s, cs) == \A i \in 1..Len(s) : s[i] \in cs

\* Option<String>
None == [some |-> FALSE, val |-> <<>>]

Some(v) == [some |-> TRUE, val |-> v]

----------------------------------------------------------------------------
(* Constants of reference.rs.                                              *)

NAME_TOTAL_LENGTH_MAX == 255

DOCKER_HUB_DOMAIN_LEGACY ==
    <<"i","n","d","e","x",".","d","o","c","k","e","r",".","i","o">>

DOCKER_HUB_DOMAIN == <<"d","o","c","k","e","r",".","i","o">>

DOCKER_HUB_OFFICIAL_REPO_NAME == <<"l","i","b","r","a","r","y">>

DEFAULT_TAG == <<"l","a","t","e","s","t">>

LOCALHOST == <<"l","o","c","a","l","h","o","s","t">>

SHA256 == <<"s","h","a","2","5","6">>

SHA384 == <<"s","h","a","3","8","4">>

SHA512 == <<"s","h","a","5","1","2">>

SHA256_HEXLEN == 64

SHA384_HEXLEN == 96

SHA512_HEXLEN == 128

----------------------------------------------------------------------------
(* The reference grammar recognizer, regexp::REFERENCE_REGEXP.  The regexp  *)
(* module is not among the source files; the recognizer follows the         *)
(* specification's section 4.2: one anchored pattern with the groups name,  *)
(* optional ":tag" and optional "@algorithm:hex", lowercase path segments   *)
(* separated by "/", a tag of [A-Za-z0-9_][A-Za-z0-9._-]{0,127}, and a ":"  *)
(* inside the name only as the port of a leading domain segment.            *)

TAG_LENGTH_MAX == 128

\* path-component: [a-z0-9]+ runs separated by ".", "_", "__" or dashes
IsPathComponent(c) ==
    /\ Len(c) >= 1
    /\ AllIn(c, LowerAlnum \cup {".", "_", "-"})
    /\ c[1] \in LowerAlnum
    /\ c[Len(c)] \in LowerAlnum
    /\ \A i \in 2..(Len(c) - 1) :
         /\ c[i] = "." => c[i-1] \in LowerAlnum /\ c[i+1] \in LowerAlnum
         /\ c[i] = "_" => /\ c[i-1] \in LowerAlnum \cup {"_"}
                          /\ c[i+1] \in LowerAlnum \cup {"_"}
                          /\ ~(c[i-1] = "_" /\ c[i+1] = "_")
         /\ c[i] = "-" => /\ c[i-1] \in LowerAlnum \cup {"-"}
                          /\ c[i+1] \in LowerAlnum \cup {"-"}

\* host: labels of letters (either case), digits and inner dashes, joined by "."
IsHost(h) ==
    /\ Len(h) >= 1
    /\ AllIn(h, Alnum \cup {".", "-"})
    /\ h[1] \in Alnum
    /\ h[Len(h)] \in Alnum
    /\ \A i \in 2..(Len(h) - 1) :
         h[i] = "." => h[i-1] \in Alnum /\ h[i+1] \in Alnum

\* domain: host, optionally followed by ":" and a decimal port
IsDomain(d) ==
    LET c == IndexOf(d, ":")
    IN  IF c = 0 THEN IsHost(d)
        ELSE /\ IsHost(Before(d, c))
             /\ Len(After(d, c)) >= 1
             /\ AllIn(After(d, c), Digit)

\* name: an optional domain segment, then one or more path components
IsName(n) ==
    LET segs == Split(n, {"/"})
    IN  /\ \A i \in 2..Len(segs) : IsPathComponent(segs[i])
        /\ \/ IsPathComponent(segs[1])
           \/ Len(segs) >= 2 /\ IsDomain(segs[1])

IsTag(t) ==
    /\ Len(t) >= 1
    /\ Len(t) <= TAG_LENGTH_MAX
    /\ t[1] \in Alnum \cup {"_"}
    /\ AllIn(t, Alnum \cup {"_", ".", "-"})

HexDigit == Digit \cup {"a","b","c","d","e","f","A","B","C","D","E","F"}

\* algorithm of an embedded digest: components starting with a letter
IsDigestAlgorithmComponent(c) ==
    /\ Len(c) >= 1
    /\ c[1] \in Lower \cup Upper
    /\ AllIn(c, Alnum)

\* digest: algorithm ":" hex
IsDigestPattern(d) ==
    LET c == IndexOf(d, ":")
        parts == Split(Before(d, c), {"-", "_", "+", "."})
    IN  /\ c > 0
        /\ \A i \in 1..Len(parts) : IsDigestAlgorithmComponent(parts[i])
        /\ Len(After(d, c)) >= 1
        /\ AllIn(After(d, c), HexDigit)

NoMatch == [matched |-> FALSE, name |-> <<>>, tag |-> None, digest |-> None]

\* RE.captures(&s): group 1 the name, group 2 the tag, group 3 the digest.
\* The digest is what follows the "@"; the tag is what follows the last ":"
\* of the rest when no "/" comes after it (a ":" before a "/" is a port).
Captures(s) ==
    LET at   == IndexOf(s, "@")
        head == IF at = 0 THEN s ELSE Before(s, at)
        dig  == IF at = 0 THEN None ELSE Some(After(s, at))
        col  == LastIndexOf(head, ":")
        sl   == LastIndexOf(head, "/")
        name == IF col > sl THEN Before(head, col) ELSE head
        tag  == IF col > sl THEN Some(After(head, col)) ELSE None
    IN  IF /\ IsName(name)
           /\ tag.some => IsTag(tag.val)
           /\ dig.some => IsDigestPattern(dig.val)
        THEN [matched |-> TRUE, name |-> name, tag |-> tag, digest |-> dig]
        ELSE NoMatch

----------------------------------------------------------------------------
(* reference.rs: split_domain.                                             *)

\* split_match without the "localhost" case
split_match_no_localhost(name) ==
    LET i     == IndexOf(name, "/")
        left  == Before(name, i)
        right == After(name, i)
    IN  IF i = 0
        THEN [domain |-> DOCKER_HUB_DOMAIN, remainder |-> name]
        ELSE IF ~(Contains(left, ".") \/ Contains(left, ":"))
             THEN [domain |-> DOCKER_HUB_DOMAIN, remainder |-> name]
             ELSE [domain |-> left, remainder |-> right]

\* split_match that takes the first segment as the domain whenever there is one
split_match_any_left(name) ==
    LET i == IndexOf(name, "/")
    IN  IF i = 0
        THEN [domain |-> DOCKER_HUB_DOMAIN, remainder |-> name]
        ELSE [domain |-> Before(name, i), remainder |-> After(name, i)]

\* the match on name.split_once('/')
split_match(name) ==
    LET i     == IndexOf(name, "/")
        left  == Before(name, i)
        right == After(name, i)
    IN  IF i = 0
        THEN [domain |-> DOCKER_HUB_DOMAIN, remainder |-> name]
        ELSE IF ~(Contains(left, ".") \/ Contains(left, ":")) /\ left # LOCALHOST
             THEN [domain |-> DOCKER_HUB_DOMAIN, remainder |-> name]
             ELSE [domain |-> left, remainder |-> right]

\* if domain == DOCKER_HUB_DOMAIN_LEGACY { domain = DOCKER_HUB_DOMAIN }
rewrite_legacy(domain) ==
    IF domain = DOCKER_HUB_DOMAIN_LEGACY THEN DOCKER_HUB_DOMAIN ELSE domain

\* prefix_official that never adds the prefix
prefix_official_never(domain, remainder) == remainder

\* the library/ prefix given to every Docker Hub remainder, nested or not
prefix_official_always(domain, remainder) ==
    IF domain = DOCKER_HUB_DOMAIN
    THEN DOCKER_HUB_OFFICIAL_REPO_NAME \o <<"/">> \o remainder
    ELSE remainder

\* if domain == DOCKER_HUB_DOMAIN && !remainder.contains('/') { library/.. }
prefix_official(domain, remainder) ==
    IF domain = DOCKER_HUB_DOMAIN /\ ~Contains(remainder, "/")
    THEN DOCKER_HUB_OFFICIAL_REPO_NAME \o <<"/">> \o remainder
    ELSE remainder

\* split_domain with the official-namespace check made before the alias rewrite
split_domain_prefix_first(name) ==
    LET m == split_match(name)
    IN  <<rewrite_legacy(m.domain), prefix_official(m.domain, m.remainder)>>

split_domain(name) ==
    LET m      == split_match(name)
        domain == rewrite_legacy(m.domain)
    IN  <<domain, prefix_official(domain, m.remainder)>>

----------------------------------------------------------------------------
(* reference.rs: Reference.                                                *)

Reference(registry, mirror_registry, repository, tag, digest) ==
    [registry |-> registry, mirror_registry |-> mirror_registry,
     repository |-> repository, tag |-> tag, digest |-> digest]

\* full_name that writes the registry segment and '/' even when it is empty
full_name_always_slash(r) == r.registry \o <<"/">> \o r.repository

full_name(r) ==
    IF r.registry = <<>> THEN r.repository
    ELSE r.registry \o <<"/">> \o r.repository

whole(r) ==
    LET s0 == full_name(r)
        s1 == IF r.tag.some
              THEN (IF s0 # <<>> THEN s0 \o <<":">> ELSE s0) \o r.tag.val
              ELSE s0
    IN  IF r.digest.some
        THEN (IF s1 # <<>> THEN s1 \o <<"@">> ELSE s1) \o r.digest.val
        ELSE s1

Ok(v) == [ok |-> TRUE, val |-> v]

Err(e) == [ok |-> FALSE, err |-> e]

\* default_tag that ignores the digest
default_tag_ignores_digest(tag, digest) ==
    IF ~tag.some THEN Some(DEFAULT_TAG) ELSE tag

\* tag = Some(DEFAULT_TAG) when neither a tag nor a digest was captured
default_tag(tag, digest) ==
    IF ~tag.some /\ ~digest.some THEN Some(DEFAULT_TAG) ELSE tag

\* name_too_long with the limit one too high
name_too_long_limit_plus_one(repository) ==
    Len(repository) > NAME_TOTAL_LENGTH_MAX + 1

\* name_too_long with >= for >
name_too_long_inclusive(repository) ==
    Len(repository) >= NAME_TOTAL_LENGTH_MAX

\* reference.repository().len() > NAME_TOTAL_LENGTH_MAX
name_too_long(repository) == Len(repository) > NAME_TOTAL_LENGTH_MAX

\* check_digest whose sha384 arm compares with the sha256 length
check_digest_sha384_short(digest) ==
    LET i   == IndexOf(digest, ":")
        alg == Before(digest, i)
        hex == After(digest, i)
    IN  IF i = 0 THEN "DigestInvalidFormat"
        ELSE IF alg = SHA256
             THEN (IF Len(hex) # SHA256_HEXLEN THEN "DigestInvalidLength" ELSE "")
        ELSE IF alg = SHA384
             THEN (IF Len(hex) # SHA256_HEXLEN THEN "DigestInvalidLength" ELSE "")
        ELSE IF alg = SHA512
             THEN (IF Len(hex) # SHA512_HEXLEN THEN "DigestInvalidLength" ELSE "")
        ELSE "DigestUnsupported"

\* check_digest without the catch-all arm: unknown algorithms pass
check_digest_accepts_other(digest) ==
    LET i   == IndexOf(digest, ":")
        alg == Before(digest, i)
        hex == After(digest, i)
    IN  IF i = 0 THEN "DigestInvalidFormat"
        ELSE IF alg = SHA256
             THEN (IF Len(hex) # SHA256_HEXLEN THEN "DigestInvalidLength" ELSE "")
        ELSE IF alg = SHA384
             THEN (IF Len(hex) # SHA384_HEXLEN THEN "DigestInvalidLength" ELSE "")
        ELSE IF alg = SHA512
             THEN (IF Len(hex) # SHA512_HEXLEN THEN "DigestInvalidLength" ELSE "")
        ELSE ""

\* check_digest that splits the digest at '+'
check_digest_split_plus(digest) ==
    LET i   == IndexOf(digest, "+")
        alg == Before(digest, i)
        hex == After(digest, i)
    IN  IF i = 0 THEN "DigestInvalidFormat"
        ELSE IF alg = SHA256
             THEN (IF Len(hex) # SHA256_HEXLEN THEN "DigestInvalidLength" ELSE "")
        ELSE IF alg = SHA384
             THEN (IF Len(hex) # SHA384_HEXLEN THEN "DigestInvalidLength" ELSE "")
        ELSE IF alg = SHA512
             THEN (IF Len(hex) # SHA512_HEXLEN THEN "DigestInvalidLength" ELSE "")
        ELSE "DigestUnsupported"

\* the match on digest.split_once(':'): "" when the digest passes
check_digest(digest) ==
    LET i   == IndexOf(digest, ":")
        alg == Before(digest, i)
        hex == After(digest, i)
    IN  IF i = 0 THEN "DigestInvalidFormat"
        ELSE IF alg = SHA256
             THEN (IF Len(hex) # SHA256_HEXLEN THEN "DigestInvalidLength" ELSE "")
        ELSE IF alg = SHA384
             THEN (IF Len(hex) # SHA384_HEXLEN THEN "DigestInvalidLength" ELSE "")
        ELSE IF alg = SHA512
             THEN (IF Len(hex) # SHA512_HEXLEN THEN "DigestInvalidLength" ELSE "")
        ELSE "DigestUnsupported"

\* try_from with the digest checks ahead of the length check
ReferenceTryFrom_digest_first(s) ==
    IF s = <<>> THEN Err("NameEmpty")
    ELSE LET captures == Captures(s) IN
    IF ~captures.matched THEN Err("ReferenceInvalidFormat")
    ELSE LET digest    == captures.digest
             tag       == default_tag(captures.tag, digest)
             sd        == split_domain(captures.name)
             reference == Reference(sd[1], None, sd[2], tag, digest)
         IN  IF digest.some /\ check_digest(digest.val) # ""
             THEN Err(check_digest(digest.val))
             ELSE IF name_too_long(reference.repository) THEN Err("NameTooLong")
                  ELSE Ok(reference)

\* impl TryFrom<String> for Reference
ReferenceTryFrom(s) ==
    IF s = <<>> THEN Err("NameEmpty")
    ELSE LET captures == Captures(s) IN
    IF ~captures.matched THEN Err("ReferenceInvalidFormat")
    ELSE LET digest    == captures.digest
             tag       == default_tag(captures.tag, digest)
             sd        == split_domain(captures.name)
             reference == Reference(sd[1], None, sd[2], tag, digest)
         IN  IF name_too_long(reference.repository) THEN Err("NameTooLong")
             ELSE IF digest.some /\ check_digest(digest.val) # ""
                  THEN Err(check_digest(digest.val))
                  ELSE Ok(reference)

----------------------------------------------------------------------------
(* digest.rs: DigestAlgorithm and Digest.                                  *)

\* impl From<&str> for DigestAlgorithm
DigestAlgorithmFrom(value) ==
    IF value = SHA256 THEN [kind |-> "Sha256", name |-> <<>>]
    ELSE IF value = SHA384 THEN [kind |-> "Sha384", name |-> <<>>]
    ELSE IF value = SHA512 THEN [kind |-> "Sha512", name |-> <<>>]
    ELSE [kind |-> "Other", name |-> value]

\* impl AsRef<str> for DigestAlgorithm
AlgorithmAsRef(a) ==
    CASE a.kind = "Sha256" -> SHA256
      [] a.kind = "Sha384" -> SHA384
      [] a.kind = "Sha512" -> SHA512
      [] OTHER -> a.name

\* DigestAlgorithm::digest_hexlen; 0 stands for None
digest_hexlen(a) ==
    CASE a.kind = "Sha256" -> SHA256_HEXLEN
      [] a.kind = "Sha384" -> SHA384_HEXLEN
      [] a.kind = "Sha512" -> SHA512_HEXLEN
      [] OTHER -> 0

\* char_is_lowercase_ascii_hex that takes uppercase hexadecimal digits too
char_is_ascii_hex(c) ==
    c \in Digit \cup {"a","b","c","d","e","f","A","B","C","D","E","F"}

char_is_lowercase_ascii_hex(c) == c \in Digit \cup {"a","b","c","d","e","f"}

\* char_is_algorithm_component that takes uppercase letters too
char_is_algorithm_component_any_case(c) == c \in Lower \cup Upper \cup Digit

char_is_algorithm_component(c) == c \in Lower \cup Digit

char_is_encoded(c) ==
    char_is_algorithm_component(c) \/ c \in Upper \cup {"=", "_", "-"}

ALGORITHM_SEPARATOR == {"+", ".", "_", "-"}

\* the loop over algorithm.split(ALGORITHM_SEPARATOR): the error of the
\* first part that is empty or holds a disallowed character, "" when none
algorithm_parts_error(algorithm) ==
    LET parts == Split(algorithm, ALGORITHM_SEPARATOR)
        bad   == {i \in 1..Len(parts) :
                    \/ parts[i] = <<>>
                    \/ \E k \in 1..Len(parts[i]) :
                         ~char_is_algorithm_component(parts[i][k])}
        first == CHOOSE i \in bad : \A j \in bad : i <= j
    IN  IF bad = {} THEN ""
        ELSE IF parts[first] = <<>> THEN "Empty algorithm component"
        ELSE "Invalid algorithm component"

\* Digest::try_from with the hexadecimal check ahead of the length check
DigestTryFrom_hex_first(s) ==
    LET i         == IndexOf(s, ":")
        algorithm == Before(s, i)
        value     == After(s, i)
        typed     == DigestAlgorithmFrom(algorithm)
        expected  == digest_hexlen(typed)
    IN  IF i = 0 THEN Err("missing ':' in digest")
        ELSE IF algorithm_parts_error(algorithm) # ""
             THEN Err(algorithm_parts_error(algorithm))
        ELSE IF value = <<>> THEN Err("Empty algorithm value")
        ELSE IF \E k \in 1..Len(value) : ~char_is_encoded(value[k])
             THEN Err("Invalid encoded value")
        ELSE IF expected # 0
                /\ \E k \in 1..Len(value) : ~char_is_lowercase_ascii_hex(value[k])
             THEN Err("Invalid non-hexadecimal character in digest")
        ELSE IF expected # 0 /\ expected # Len(value)
             THEN Err("Invalid digest length")
        ELSE Ok([algorithm |-> typed, value |-> s, split |-> i - 1])

\* Digest::try_from without the check for an empty value
DigestTryFrom_allows_empty_value(s) ==
    LET i         == IndexOf(s, ":")
        algorithm == Before(s, i)
        value     == After(s, i)
        typed     == DigestAlgorithmFrom(algorithm)
        expected  == digest_hexlen(typed)
    IN  IF i = 0 THEN Err("missing ':' in digest")
        ELSE IF algorithm_parts_error(algorithm) # ""
             THEN Err(algorithm_parts_error(algorithm))
        ELSE IF \E k \in 1..Len(value) : ~char_is_encoded(value[k])
             THEN Err("Invalid encoded value")
        ELSE IF expected # 0 /\ expected # Len(value)
             THEN Err("Invalid digest length")
        ELSE IF expected # 0
                /\ \E k \in 1..Len(value) : ~char_is_lowercase_ascii_hex(value[k])
             THEN Err("Invalid non-hexadecimal character in digest")
        ELSE Ok([algorithm |-> typed, value |-> s, split |-> i - 1])

\* impl TryFrom<String> for Digest; split is the 0-based offset of the ':'
DigestTryFrom(s) ==
    LET i         == IndexOf(s, ":")
        algorithm == Before(s, i)
        value     == After(s, i)
        typed     == DigestAlgorithmFrom(algorithm)
        expected  == digest_hexlen(typed)
    IN  IF i = 0 THEN Err("missing ':' in digest")
        ELSE IF algorithm_parts_error(algorithm) # ""
             THEN Err(algorithm_parts_error(algorithm))
        ELSE IF value = <<>> THEN Err("Empty algorithm value")
        ELSE IF \E k \in 1..Len(value) : ~char_is_encoded(value[k])
             THEN Err("Invalid encoded value")
        ELSE IF expected # 0 /\ expected # Len(value)
             THEN Err("Invalid digest length")
        ELSE IF expected # 0
                /\ \E k \in 1..Len(value) : ~char_is_lowercase_ascii_hex(value[k])
             THEN Err("Invalid non-hexadecimal character in digest")
        ELSE Ok([algorithm |-> typed, value |-> s, split |-> i - 1])

\* Digest::digest that starts at the ':'
DigestDigest_from_split(d) == SubSeq(d.value, d.split + 1, Len(d.value))

\* Digest::digest: &self.value[self.split + 1..]
DigestDigest(d) == SubSeq(d.value, d.split + 2, Len(d.value))

----------------------------------------------------------------------------
(* The texts the parsers are applied to.                                   *)

MaxText == 4

LenSlack == 1

DigestSlack == 1

\* texts used to build inputs
T_IO_5 == <<"t",".","i","o",":","5","/">>

UPPERCASE == <<"U","p","/">>

LOWERCASE == <<"u","p","/">>

TAG_1_0 == <<"T",".","1","-","0">>

MD5 == <<"m","d","5">>

SHA256_UPPER == <<"S","H","A","2","5","6">>

MULTIHASH == <<"m","u","l","t","i","h","a","s","h","+","b","a","s","e","5","8">>

REPO == <<"r","e","p","o">>

\* every text of at most MaxText characters over the structural characters
TextAlphabet == {"a", "A", "5", ".", ":", "/", "@"}

ShortTexts == UNION {[1..k -> TextAlphabet] : k \in 0..MaxText}

\* what may stand before the repository: nothing, a domain, or a path segment
Prefixes == {<<>>, LOCALHOST \o <<"/">>, DOCKER_HUB_DOMAIN_LEGACY \o <<"/">>,
             DOCKER_HUB_DOMAIN \o <<"/">>, T_IO_5, UPPERCASE, LOWERCASE}

\* lengths around NAME_TOTAL_LENGTH_MAX, with and without "library/"
LongLens ==
    (NAME_TOTAL_LENGTH_MAX - Len(DOCKER_HUB_OFFICIAL_REPO_NAME) - 1 - LenSlack)
        .. (NAME_TOTAL_LENGTH_MAX + 1 + LenSlack)

Repositories ==
    {<<"x">>, <<"x", "/", "y">>}
        \cup {Rep("a", n) : n \in LongLens}
        \cup {<<"b", "/">> \o Rep("a", n - 2) : n \in LongLens}

Tags == {None, Some(<<"t">>), Some(TAG_1_0)}

Algorithms == {SHA256, SHA384, SHA512, MD5, SHA256_UPPER, MULTIHASH}

HexLens ==
    {8} \cup UNION {(h - DigestSlack)..(h + DigestSlack) :
                      h \in {SHA256_HEXLEN, SHA384_HEXLEN, SHA512_HEXLEN}}

HexValues == {Rep(c, n) : c \in {"f", "F"}, n \in HexLens}

DigestPatterns == {a \o <<":">> \o v : a \in Algorithms, v \in HexValues}

Compose(prefix, repository, tag, digest) ==
    prefix \o repository
        \o (IF tag.some THEN <<":">> \o tag.val ELSE <<>>)
        \o (IF digest.some THEN <<"@">> \o digest.val ELSE <<>>)

NameTexts ==
    {Compose(p, r, t, d) :
        p \in Prefixes, r \in Repositories, t \in Tags,
        d \in {None, Some(SHA256 \o <<":">> \o Rep("f", SHA256_HEXLEN)),
               Some(MD5 \o <<":">> \o Rep("f", 8)),
               Some(SHA256 \o <<":">> \o Rep("f", 8))}}

DigestedTexts ==
    {Compose(<<>>, REPO, t, Some(d)) :
        t \in {None, Some(<<"t">>)}, d \in DigestPatterns}

\* texts named by the tests and the documentation
BUSYBOX == <<"b","u","s","y","b","o","x">>

TEST_COM_5000_REPO == <<"t","e","s","t",".","c","o","m",":","5","0","0","0","/","r","e","p","o">>

TEST_COM_5000 == <<"t","e","s","t",".","c","o","m",":","5","0","0","0">>

INDEX_DOCKER_IO_X == <<"i","n","d","e","x",".","d","o","c","k","e","r",".","i","o","/","x">>

UPPERCASE_LOWERCASE_TAG == <<"U","p","p","e","r","c","a","s","e","/","l","o","w","e","r","c","a","s","e",":","t","a","g">>

UPPERCASE_TAG == <<"U","p","p","e","r","c","a","s","e",":","t","a","g">>

TEST_5000_UPPERCASE ==
    <<"t","e","s","t",":","5","0","0","0","/","U","p","p","e","r","c","a","s","e",
      "/","l","o","w","e","r","c","a","s","e",":","t","a","g">>

MD5_DEADBEEF == <<"m","d","5",":","d","e","a","d","b","e","e","f">>

DocumentedTexts ==
    {BUSYBOX, TEST_COM_5000_REPO, TEST_COM_5000, INDEX_DOCKER_IO_X,
     UPPERCASE_LOWERCASE_TAG, REPO \o <<"@">> \o MD5_DEADBEEF,
     UPPERCASE_TAG, TEST_5000_UPPERCASE}

ReferenceInputs ==
    ShortTexts \cup NameTexts \cup DigestedTexts \cup DocumentedTexts

\* the longest sequence of calls made on one Reference value
MaxOps == 3

DOCKER_MIRROR_IO ==
    <<"d","o","c","k","e","r",".","m","i","r","r","o","r",".","i","o">>

\* arguments of the constructors, of set_mirror_registry and of
\* clone_with_digest; none of them is validated
HeldRegistries == {<<>>, DOCKER_HUB_DOMAIN, TEST_COM_5000}

HeldRepositories == {<<>>, REPO}

HeldTags == {<<"t">>, <<>>}

HeldDigests == {<<"x">>, SHA256 \o <<":">> \o Rep("f", SHA256_HEXLEN)}

Mirrors == {DOCKER_MIRROR_IO, DOCKER_HUB_DOMAIN}

\* texts parsed into the Reference that is then operated on
HeldTexts ==
    {BUSYBOX, TEST_COM_5000_REPO,
     Compose(T_IO_5, REPO, Some(<<"t">>),
             Some(SHA256 \o <<":">> \o Rep("f", SHA256_HEXLEN)))}

\* texts for Digest::try_from: well-formed and malformed algorithms and values
DigestAlgorithms == Algorithms \cup {<<>>, <<"a", "+">>, <<"5">>, <<"a", "^">>}

DigestValues ==
    HexValues \cup {<<>>, <<"z", "z">>, <<"Q", "m", "=">>, <<"1", "*">>,
                    Rep("z", SHA256_HEXLEN)}

\* every text of at most MaxText characters over one character of each
\* class the digest grammar tells apart
DigestAlphabet == {"a", "A", ":", "+", "_", "=", "*"}

ShortDigestTexts == UNION {[1..k -> DigestAlphabet] : k \in 0..MaxText}

\* bare values for Sha256Digest::from_str, right and wrong
BareValues ==
    HexValues
        \cup {Rep("f", SHA256_HEXLEN - 1) \o <<c>> : c \in {"0", "g", "-", ":", "F"}}
        \cup {Rep("f", 32) \o <<":">> \o Rep("f", 31)}

DigestInputs ==
    {a \o <<":">> \o v : a \in DigestAlgorithms, v \in DigestValues}
        \cup {<<>>, <<"f", "o", "o">>, MD5_DEADBEEF}
        \cup ShortDigestTexts
        \cup BareValues
        \cup {SHA256 \o <<":">> \o v : v \in BareValues}

\* impl AsRef<str> for Digest
DigestAsRef(d) == d.value

\* impl Display for Digest (to_string): f.write_str(self.as_ref())
DigestFmt(d) == DigestAsRef(d)

\* impl Display for DigestAlgorithm: f.write_str(self.as_ref())
AlgorithmFmt(a) == AlgorithmAsRef(a)

\* impl FromStr for Sha256Digest; Digest::from_str is Digest::try_from
Sha256DigestFromStr(digest) ==
    LET alg == [kind |-> "Sha256", name |-> <<>>]
        v   == AlgorithmFmt(alg) \o <<":">> \o digest
        d   == DigestTryFrom(v)
    IN  IF ~d.ok THEN d
        ELSE IF d.val.algorithm.kind = "Sha256"
             THEN Ok([digest |-> DigestDigest(d.val)])
             ELSE Err("Expected algorithm sha256 but found")

\* Sha256Digest::digest
Sha256DigestDigest(v) == v.digest

\* From<Sha256Digest> for Digest with the offset one short
DigestFromSha256_split_short(value) ==
    [algorithm |-> [kind |-> "Sha256", name |-> <<>>],
     value |-> SHA256 \o <<":">> \o Sha256DigestDigest(value),
     split |-> 5]

\* impl From<Sha256Digest> for Digest: format!("sha256:{}", value.digest())
\* with split: 6
DigestFromSha256(value) ==
    [algorithm |-> [kind |-> "Sha256", name |-> <<>>],
     value |-> SHA256 \o <<":">> \o Sha256DigestDigest(value),
     split |-> 6]

\* Digest to Sha256Digest: digest.rs has no conversion that takes a Digest;
\* the one way from a Digest d is Sha256Digest::from_str(d.digest())
NarrowToSha256(d) == Sha256DigestFromStr(DigestDigest(d))

----------------------------------------------------------------------------
(* Reference: constructors, mirror registry, resolution (reference.rs).    *)

\* Reference::with_tag
with_tag(registry, repository, tag) ==
    Reference(registry, None, repository, Some(tag), None)

\* with_digest that stores its argument as the tag
with_digest_as_tag(registry, repository, digest) ==
    Reference(registry, None, repository, Some(digest), None)

\* Reference::with_digest
with_digest(registry, repository, digest) ==
    Reference(registry, None, repository, None, Some(digest))

\* clone_with_digest that clones the tag as well
clone_with_digest_keeps_tag(self, digest) ==
    Reference(self.registry, self.mirror_registry, self.repository,
              self.tag, Some(digest))

\* Reference::clone_with_digest(&self, digest)
clone_with_digest(self, digest) ==
    Reference(self.registry, self.mirror_registry, self.repository,
              None, Some(digest))

\* set_mirror_registry that overwrites the registry
set_mirror_registry_as_registry(self, registry) ==
    [self EXCEPT !.registry = registry, !.mirror_registry = Some(registry)]

\* Reference::set_mirror_registry(&mut self, registry): the receiver afterwards
set_mirror_registry(self, registry) ==
    [self EXCEPT !.mirror_registry = Some(registry)]

\* resolve_registry that redirects docker.io before it looks at the mirror
resolve_registry_hub_first(self) ==
    IF self.registry = DOCKER_HUB_DOMAIN
    THEN DOCKER_HUB_DOMAIN_LEGACY
    ELSE IF self.mirror_registry.some
         THEN self.mirror_registry.val
         ELSE self.registry

\* Reference::resolve_registry: the match on (registry, mirror_registry);
\* the literals "docker.io" and "index.docker.io" are the two constants
resolve_registry(self) ==
    IF self.mirror_registry.some
    THEN self.mirror_registry.val
    ELSE IF self.registry = DOCKER_HUB_DOMAIN
         THEN DOCKER_HUB_DOMAIN_LEGACY
         ELSE self.registry

\* namespace that reports the original registry with or without a mirror
namespace_always(self) == Some(self.registry)

\* Reference::namespace
namespace(self) ==
    IF self.mirror_registry.some THEN Some(self.registry) ELSE None

\* impl Display for Reference: write!(f, "{}", self.whole())
fmt(self) == whole(self)

\* impl From<Reference> for String
StringFrom(reference) == whole(reference)

----------------------------------------------------------------------------
(* The state: the text last given to Reference::try_from and its outcome,   *)
(* where the text came from, the Reference it was rendered from, and the    *)
(* text last given to Digest::try_from with its outcome.                    *)

NotRun == [ok |-> FALSE, err |-> "not run"]

NoReference == Reference(<<>>, None, <<>>, None, None)

\* the operation last applied to a Reference value, its argument, and the
\* receiver as it was before the call
Operation(op, arg, receiver) == [op |-> op, arg |-> arg, before |-> receiver]

NoOperation == Operation("none", <<>>, NoReference)

\* history keeps, outside the values themselves, the mirror registry last
\* passed to set_mirror_registry: own for calls on the held value itself,
\* held for calls on it or on the value it was cloned from, made likewise
\* for the value clone_with_digest returned.

\* a Reference value is held: every constructor and every successful parse
\* gives a value with a tag or a digest
Holding == held # NoReference

\* no Digest: Digest::try_from gives none with an empty buffer
NoDigest == [algorithm |-> [kind |-> "Other", name |-> <<>>], value |-> <<>>, split |-> 0]

\* the Digest last narrowed ("parsed": dresult, "widened": widened) and the outcome
Narrowed(of, outcome) == [of |-> of, result |-> outcome]

NotNarrowed == Narrowed("none", NotRun)

\* the threads that call Reference::try_from at the same time
MaxThreads == 3

Threads == 1..MaxThreads

\* pc[t]: where thread t is in try_from; once: the state of the Once that
\* lazy_static puts around RE; RE: the static itself

Init ==
    /\ result = NotRun
    /\ dresult = NotRun
    /\ sresult = NotRun
    /\ widened = NoDigest
    /\ narrowed = NotNarrowed
    /\ prev = NoReference
    /\ held = NoReference
    /\ made = NoReference
    /\ history = [own |-> None, held |-> None, made |-> None]
    /\ last = NoOperation
    /\ ops = 0
    /\ pc = [t \in Threads |-> "idle"]
    /\ tinput = [t \in Threads |-> <<>>]
    /\ tresult = [t \in Threads |-> NotRun]
    /\ once = "incomplete"
    /\ RE = "unset"
    /\ \/ input \in ReferenceInputs /\ origin = "caller" /\ dinput = <<>>
       \/ dinput \in DigestInputs /\ origin = "unset" /\ input = <<>>
       \/ origin = "object" /\ input = <<>> /\ dinput = <<>>

\* Reference::try_from(input)
ParseReference ==
    /\ origin = "caller"
    /\ result = NotRun
    /\ result' = ReferenceTryFrom(input)
    /\ UNCHANGED <<input, origin, prev, dinput, dresult, object, sresult,
                 conversions, threads>>

\* Reference::try_from(reference.whole()) of a parsed reference
Reparse ==
    /\ origin = "caller"
    /\ result.ok
    /\ prev' = result.val
    /\ input' = whole(result.val)
    /\ origin' = "whole"
    /\ result' = ReferenceTryFrom(whole(result.val))
    /\ UNCHANGED <<dinput, dresult, object, sresult,
                 conversions, threads>>

\* Digest::try_from(reference.digest()) of a parsed reference
ParseDigestOfReference ==
    /\ result.ok
    /\ result.val.digest.some
    /\ dresult = NotRun
    /\ dinput' = result.val.digest.val
    /\ dresult' = DigestTryFrom(result.val.digest.val)
    /\ UNCHANGED <<input, result, origin, prev, object, sresult,
                 conversions, threads>>

\* Digest::try_from(dinput)
ParseDigest ==
    /\ origin = "unset"
    /\ dresult = NotRun
    /\ dresult' = DigestTryFrom(dinput)
    /\ UNCHANGED <<input, result, origin, prev, dinput, object, sresult,
                 conversions, threads>>

\* Sha256Digest::from_str(dinput)
ParseSha256 ==
    /\ origin = "unset"
    /\ sresult = NotRun
    /\ sresult' = Sha256DigestFromStr(dinput)
    /\ UNCHANGED <<input, result, origin, prev, dinput, dresult, object,
                 conversions, threads>>

\* Digest::from(x) of the Sha256Digest x that Sha256Digest::from_str gave
Widen ==
    /\ origin = "unset"
    /\ sresult.ok
    /\ widened = NoDigest
    /\ widened' = DigestFromSha256(sresult.val)
    /\ UNCHANGED <<input, result, origin, prev, dinput, dresult, sresult,
                   narrowed, object, threads>>

\* Sha256Digest::from_str(d.digest()) of the parsed Digest d
NarrowParsed ==
    /\ origin = "unset"
    /\ dresult.ok
    /\ narrowed = NotNarrowed
    /\ narrowed' = Narrowed("parsed", NarrowToSha256(dresult.val))
    /\ UNCHANGED <<input, result, origin, prev, dinput, dresult, sresult,
                   widened, object, threads>>

\* Sha256Digest::from_str(d.digest()) of the widened Digest d
NarrowWidened ==
    /\ origin = "unset"
    /\ widened # NoDigest
    /\ narrowed = NotNarrowed
    /\ narrowed' = Narrowed("widened", NarrowToSha256(widened))
    /\ UNCHANGED <<input, result, origin, prev, dinput, dresult, sresult,
                   widened, object, threads>>

\* Reference::try_from("repo@" + dinput) after Digest::try_from(dinput)
ParseEmbedded ==
    /\ origin = "unset"
    /\ dresult # NotRun
    /\ input' = REPO \o <<"@">> \o dinput
    /\ origin' = "embed"
    /\ result' = ReferenceTryFrom(REPO \o <<"@">> \o dinput)
    /\ UNCHANGED <<prev, dinput, dresult, object, sresult,
                 conversions, threads>>

\* let mut reference = Reference::try_from(s)
TryFromHeld ==
    /\ origin = "object"
    /\ last = NoOperation
    /\ \E s \in HeldTexts :
          /\ input' = s
          /\ result' = ReferenceTryFrom(s)
          /\ held' = IF ReferenceTryFrom(s).ok
                     THEN ReferenceTryFrom(s).val
                     ELSE NoReference
          /\ last' = Operation("try_from", s, NoReference)
    /\ UNCHANGED <<origin, prev, dinput, dresult, made, history, ops, sresult,
                 conversions, threads>>

\* let mut reference = Reference::with_tag(registry, repository, tag)
NewWithTag ==
    /\ origin = "object"
    /\ last = NoOperation
    /\ \E r \in HeldRegistries, p \in HeldRepositories, t \in HeldTags :
          /\ held' = with_tag(r, p, t)
          /\ last' = Operation("with_tag", t, NoReference)
    /\ UNCHANGED <<input, result, origin, prev, dinput, dresult, made, history, ops, sresult,
                 conversions, threads>>

\* let mut reference = Reference::with_digest(registry, repository, digest)
NewWithDigest ==
    /\ origin = "object"
    /\ last = NoOperation
    /\ \E r \in HeldRegistries, p \in HeldRepositories, d \in HeldDigests :
          /\ held' = with_digest(r, p, d)
          /\ last' = Operation("with_digest", d, NoReference)
    /\ UNCHANGED <<input, result, origin, prev, dinput, dresult, made, history, ops, sresult,
                 conversions, threads>>

\* reference.set_mirror_registry(m)
SetMirrorRegistry ==
    /\ Holding
    /\ ops < MaxOps
    /\ \E m \in Mirrors :
          /\ held' = set_mirror_registry(held, m)
          /\ history' = [history EXCEPT !.own = Some(m), !.held = Some(m)]
          /\ last' = Operation("set_mirror_registry", m, held)
    /\ ops' = ops + 1
    /\ UNCHANGED <<input, result, origin, prev, dinput, dresult, made, sresult,
                 conversions, threads>>

\* let clone = reference.clone_with_digest(d)
CloneWithDigest ==
    /\ Holding
    /\ ops < MaxOps
    /\ \E d \in HeldDigests :
          /\ made' = clone_with_digest(held, d)
          /\ last' = Operation("clone_with_digest", d, held)
    /\ history' = [history EXCEPT !.made = history.held]
    /\ ops' = ops + 1
    /\ UNCHANGED <<input, result, origin, prev, dinput, dresult, held, sresult,
                 conversions, threads>>

\* let mut reference = clone: the clone is the receiver from here on
UseClone ==
    /\ made # NoReference
    /\ held' = made
    /\ made' = NoReference
    /\ history' = [own |-> None, held |-> history.made, made |-> None]
    /\ last' = Operation("use_clone", <<>>, held)
    /\ UNCHANGED <<input, result, origin, prev, dinput, dresult, ops, sresult,
                 conversions, threads>>

Next ==
    \/ ParseReference
    \/ Reparse
    \/ ParseDigestOfReference
    \/ ParseDigest
    \/ ParseSha256
    \/ Widen
    \/ NarrowParsed
    \/ NarrowWidened
    \/ ParseEmbedded
    \/ TryFromHeld
    \/ NewWithTag
    \/ NewWithDigest
    \/ SetMirrorRegistry
    \/ CloneWithDigest
    \/ UseClone

Spec == Init /\ [][Next]_vars

----------------------------------------------------------------------------
(* Reference::try_from called by several threads.  Spec runs each parse    *)
(* alone and takes the compiled recognizer as given; here its lazy         *)
(* initialisation (lazy_static! { static ref RE }) is followed step by     *)
(* step: the first dereference of RE runs must_compile under a Once, a     *)
(* dereference during that run blocks, a later one reads RE.               *)

ThreadInputs == {<<>>, BUSYBOX, UPPERCASE_TAG, TEST_COM_5000_REPO}

ThreadInit ==
    /\ result = NotRun
    /\ dresult = NotRun
    /\ sresult = NotRun
    /\ widened = NoDigest
    /\ narrowed = NotNarrowed
    /\ prev = NoReference
    /\ held = NoReference
    /\ made = NoReference
    /\ history = [own |-> None, held |-> None, made |-> None]
    /\ last = NoOperation
    /\ ops = 0
    /\ input = <<>>
    /\ dinput = <<>>
    /\ origin = "threads"
    /\ pc = [t \in Threads |-> "call"]
    /\ tinput \in [Threads -> ThreadInputs]
    /\ tresult = [t \in Threads |-> NotRun]
    /\ once = "incomplete"
    /\ RE = "unset"

sequential ==
    <<input, result, origin, prev, dinput, dresult, sresult, conversions, object>>

\* if s.is_empty() { return Err(ParseError::NameEmpty) }
Call(t) ==
    /\ pc[t] = "call"
    /\ IF tinput[t] = <<>>
       THEN /\ tresult' = [tresult EXCEPT ![t] = Err("NameEmpty")]
            /\ pc' = [pc EXCEPT ![t] = "done"]
       ELSE /\ pc' = [pc EXCEPT ![t] = "deref"]
            /\ UNCHANGED tresult
    /\ UNCHANGED <<tinput, once, RE, sequential>>

\* the first dereference of RE with the Once already running as well
DerefFirst_unsynchronized(t) ==
    /\ pc[t] = "deref"
    /\ once # "complete"
    /\ once' = "running"
    /\ pc' = [pc EXCEPT ![t] = "init"]
    /\ UNCHANGED <<tinput, tresult, RE, sequential>>

\* the first dereference of RE: the Once is taken and this thread runs the
\* initializer; while it runs, a thread at "deref" has no step (it waits)
DerefFirst(t) ==
    /\ pc[t] = "deref"
    /\ once = "incomplete"
    /\ once' = "running"
    /\ pc' = [pc EXCEPT ![t] = "init"]
    /\ UNCHANGED <<tinput, tresult, RE, sequential>>

\* regexp::must_compile(regexp::REFERENCE_REGEXP) returns: RE is set and the
\* Once completes
Initialize(t) ==
    /\ pc[t] = "init"
    /\ RE' = IF RE = "unset" THEN "compiled" ELSE "compiled again"
    /\ once' = "complete"
    /\ pc' = [pc EXCEPT ![t] = "captures"]
    /\ UNCHANGED <<tinput, tresult, sequential>>

\* a dereference of RE after the Once completed
DerefReady(t) ==
    /\ pc[t] = "deref"
    /\ once = "complete"
    /\ pc' = [pc EXCEPT ![t] = "captures"]
    /\ UNCHANGED <<tinput, tresult, once, RE, sequential>>

\* RE.captures(&s) and the rest of try_from; a read of RE before it is set
\* has no defined outcome
Match(t) ==
    /\ pc[t] = "captures"
    /\ tresult' = [tresult EXCEPT ![t] =
                     IF RE = "unset" THEN Err("RE read before it was set")
                     ELSE ReferenceTryFrom(tinput[t])]
    /\ pc' = [pc EXCEPT ![t] = "done"]
    /\ UNCHANGED <<tinput, once, RE, sequential>>

ThreadNext ==
    \E t \in Threads :
        \/ Call(t)
        \/ DerefFirst(t)
        \/ Initialize(t)
        \/ DerefReady(t)
        \/ Match(t)

ThreadSpec == ThreadInit /\ [][ThreadNext]_vars

----------------------------------------------------------------------------
(* What the grammar captured from the text of the current state, and the   *)
(* parts of it the claims speak about.                                     *)

Ran == result # NotRun

Matched == Captures(input).matched

CapturedName == Captures(input).name

CapturedTag == Captures(input).tag

CapturedDigest == Captures(input).digest

\* the text before and after the first "/" of the captured name
NameLeft == Before(CapturedName, IndexOf(CapturedName, "/"))

NameRight == After(CapturedName, IndexOf(CapturedName, "/"))

\* the first segment counts as a domain
LeftIsDomain ==
    /\ Contains(CapturedName, "/")
    /\ \/ Contains(NameLeft, ".")
       \/ Contains(NameLeft, ":")
       \/ NameLeft = LOCALHOST

\* the repository as written in the input: the name without its domain
WrittenRepository == IF LeftIsDomain THEN NameRight ELSE CapturedName

\* the registry as written in the input, or the default
WrittenRegistry == IF LeftIsDomain THEN NameLeft ELSE DOCKER_HUB_DOMAIN

\* the repository that domain splitting gives for the captured name
SplitRepository == split_domain(CapturedName)[2]

\* algorithm and value of the captured digest
CapturedAlgorithm ==
    Before(CapturedDigest.val, IndexOf(CapturedDigest.val, ":"))

CapturedValue ==
    After(CapturedDigest.val, IndexOf(CapturedDigest.val, ":"))

ShaFamilies == {SHA256, SHA384, SHA512}

ShaShapes ==
    {<<SHA256, SHA256_HEXLEN>>, <<SHA384, SHA384_HEXLEN>>,
     <<SHA512, SHA512_HEXLEN>>}

LIBRARY_SLASH == DOCKER_HUB_OFFICIAL_REPO_NAME \o <<"/">>

----------------------------------------------------------------------------
\* C1: round trip.  Whenever a text was accepted with result r and r.whole()
\* was parsed again, the second parse succeeds and yields a Reference equal
\* to r (registry, repository, tag, digest, no mirror).
C1_RoundTrip == origin = "whole" => result = Ok(prev)

\* C2: after every successful parse, an input carrying neither tag nor
\* digest has tag "latest" and no digest; otherwise tag and digest are
\* exactly those written in the input; so one of the two is present.
C2_TagOrDigest ==
    result.ok =>
        /\ (~CapturedTag.some /\ ~CapturedDigest.some)
              => /\ result.val.tag = Some(DEFAULT_TAG)
                 /\ result.val.digest = None
        /\ (CapturedTag.some \/ CapturedDigest.some)
              => /\ result.val.tag = CapturedTag
                 /\ result.val.digest = CapturedDigest
        /\ result.val.tag.some \/ result.val.digest.some

\* a digest-only input was accepted: the tag stays absent
C2_Witness ==
    /\ result.ok
    /\ origin = "caller"
    /\ ~CapturedTag.some
    /\ CapturedDigest.some
    /\ ~result.val.tag.some

\* C3: the text before the first "/" of the name is the registry, and the
\* rest the repository, exactly when that text contains "." or ":" or is
\* "localhost"; otherwise the registry is docker.io and the whole name the
\* repository.  The result is this pair after the alias rewrite and the
\* library/ prefix rule.  "test.com:5000/repo" and "test.com:5000" parse as
\* documented.
C3_DomainSplit ==
    /\ result.ok =>
         /\ result.val.registry = rewrite_legacy(WrittenRegistry)
         /\ result.val.repository =
              prefix_official(rewrite_legacy(WrittenRegistry), WrittenRepository)
    /\ (Ran /\ input = TEST_COM_5000_REPO) =>
         result = Ok(Reference(<<"t","e","s","t",".","c","o","m",":","5","0","0","0">>,
                               None, REPO, Some(DEFAULT_TAG), None))
    /\ (Ran /\ input = TEST_COM_5000) =>
         result = Ok(Reference(DOCKER_HUB_DOMAIN, None,
                               LIBRARY_SLASH \o <<"t","e","s","t",".","c","o","m">>,
                               Some(<<"5","0","0","0">>), None))

\* a name whose first segment is "localhost" was accepted with it as registry
C3_Witness ==
    /\ result.ok
    /\ LeftIsDomain
    /\ NameLeft = LOCALHOST
    /\ result.val.registry = LOCALHOST
    /\ result.val.repository = NameRight

\* C4: a registry of "index.docker.io" is rewritten to "docker.io" before
\* the official-namespace check: "index.docker.io/x" parses to docker.io,
\* library/x, and no parsed Reference has the registry "index.docker.io".
C4_LegacyAlias ==
    /\ result.ok =>
         /\ result.val.registry # DOCKER_HUB_DOMAIN_LEGACY
         /\ WrittenRegistry = DOCKER_HUB_DOMAIN_LEGACY =>
              /\ result.val.registry = DOCKER_HUB_DOMAIN
              /\ ~Contains(WrittenRepository, "/") =>
                   result.val.repository = LIBRARY_SLASH \o WrittenRepository
    /\ (Ran /\ input = INDEX_DOCKER_IO_X) =>
         result = Ok(Reference(DOCKER_HUB_DOMAIN, None, LIBRARY_SLASH \o <<"x">>,
                               Some(DEFAULT_TAG), None))

\* a single-segment name under "index.docker.io" was accepted
C4_Witness ==
    /\ result.ok
    /\ origin = "caller"
    /\ WrittenRegistry = DOCKER_HUB_DOMAIN_LEGACY
    /\ ~Contains(WrittenRepository, "/")
    /\ result.val.registry = DOCKER_HUB_DOMAIN

\* C5: every parsed Reference with registry docker.io has a "/" in its
\* repository: a single-segment name x becomes library/x ("busybox" gives
\* docker.io, library/busybox, latest, no digest), and a repository that
\* already has a "/" is unchanged.
C5_OfficialNamespace ==
    /\ (result.ok /\ result.val.registry = DOCKER_HUB_DOMAIN) =>
         /\ Contains(result.val.repository, "/")
         /\ ~Contains(WrittenRepository, "/") =>
              result.val.repository = LIBRARY_SLASH \o WrittenRepository
         /\ Contains(WrittenRepository, "/") =>
              result.val.repository = WrittenRepository
    /\ (Ran /\ input = BUSYBOX) =>
         result = Ok(Reference(DOCKER_HUB_DOMAIN, None, LIBRARY_SLASH \o BUSYBOX,
                               Some(DEFAULT_TAG), None))

\* a single-segment Docker Hub name was accepted and prefixed
C5_Witness ==
    /\ result.ok
    /\ origin = "caller"
    /\ ~Contains(CapturedName, "/")
    /\ result.val.repository = LIBRARY_SLASH \o CapturedName

\* C6: an input that matches the grammar fails with NameTooLong when the
\* repository from domain splitting (library/ included) is longer than 255;
\* so every parsed Reference has a repository of at most 255 characters.
C6_NameTooLong ==
    /\ (Ran /\ Matched /\ Len(SplitRepository) > NAME_TOTAL_LENGTH_MAX)
          => result = Err("NameTooLong")
    /\ result.ok => Len(result.val.repository) <= NAME_TOTAL_LENGTH_MAX

\* a single-segment name of 248 characters was rejected: 256 with library/
C6_Witness ==
    /\ result = Err("NameTooLong")
    /\ Matched
    /\ ~Contains(CapturedName, "/")
    /\ Len(SplitRepository) = NAME_TOTAL_LENGTH_MAX + 1

\* the library/ prefix is added to the written repository
OfficialPrefixAdded ==
    /\ rewrite_legacy(WrittenRegistry) = DOCKER_HUB_DOMAIN
    /\ ~Contains(WrittenRepository, "/")

\* C7 as stated: for every grammar-valid input a repository name written
\* with exactly 255 characters passes the length check (and parses when no
\* digest follows), and one written with 256 characters fails with
\* NameTooLong, for every kind of name.
C7_WrittenBoundary ==
    (Ran /\ origin = "caller" /\ Matched) =>
        /\ Len(WrittenRepository) = NAME_TOTAL_LENGTH_MAX =>
             /\ result # Err("NameTooLong")
             /\ ~CapturedDigest.some => result.ok
        /\ Len(WrittenRepository) = NAME_TOTAL_LENGTH_MAX + 1 =>
             result = Err("NameTooLong")

\* C7 amended: the boundary is on the repository after domain splitting.
\* A written repository of exactly 255 characters parses and one of 256
\* fails with NameTooLong when no prefix is added (a registry other than
\* Docker Hub, or a multi-segment name); when library/ is added (a
\* single-segment Docker Hub name) the written boundary is 247 / 248.
C7_LengthBoundary ==
    (Ran /\ origin = "caller" /\ Matched) =>
        LET limit == IF OfficialPrefixAdded
                     THEN NAME_TOTAL_LENGTH_MAX - Len(LIBRARY_SLASH)
                     ELSE NAME_TOTAL_LENGTH_MAX
        IN  /\ Len(WrittenRepository) = limit =>
                 /\ result # Err("NameTooLong")
                 /\ ~CapturedDigest.some => result.ok
            /\ Len(WrittenRepository) = limit + 1 =>
                 result = Err("NameTooLong")

\* a single-segment Docker Hub name of 247 characters was accepted
C7_Witness ==
    /\ result.ok
    /\ origin = "caller"
    /\ OfficialPrefixAdded
    /\ Len(WrittenRepository) = NAME_TOTAL_LENGTH_MAX - Len(LIBRARY_SLASH)
    /\ Len(result.val.repository) = NAME_TOTAL_LENGTH_MAX

\* C8: when the grammar captures a digest alg:val and the repository is
\* within the limit, the parse succeeds iff (alg, len(val)) is (sha256, 64),
\* (sha384, 96) or (sha512, 128); a sha family with another length fails
\* with DigestInvalidLength, any other alg (other letter case included)
\* with DigestUnsupported.
C8_DigestClassification ==
    (/\ Ran
     /\ Matched
     /\ CapturedDigest.some
     /\ Len(SplitRepository) <= NAME_TOTAL_LENGTH_MAX) =>
        /\ result.ok <=> <<CapturedAlgorithm, Len(CapturedValue)>> \in ShaShapes
        /\ (/\ CapturedAlgorithm \in ShaFamilies
            /\ <<CapturedAlgorithm, Len(CapturedValue)>> \notin ShaShapes)
              => result = Err("DigestInvalidLength")
        /\ CapturedAlgorithm \notin ShaFamilies
              => result = Err("DigestUnsupported")

\* an upper-case "SHA256" digest of 64 characters was rejected as unsupported
C8_Witness ==
    /\ result = Err("DigestUnsupported")
    /\ Matched
    /\ CapturedDigest.some
    /\ CapturedAlgorithm = SHA256_UPPER
    /\ Len(CapturedValue) = SHA256_HEXLEN

\* the digest text d was accepted by Digest::try_from with an algorithm
\* outside the sha families, and "repo@" + d was then parsed
EmbeddedOther ==
    /\ origin = "embed"
    /\ dresult.ok
    /\ dresult.val.algorithm.kind = "Other"

\* C9 as stated: for every digest text d that Digest parsing accepts with
\* an algorithm other than sha256, sha384 and sha512, parsing "repo@" + d
\* fails with DigestUnsupported.
C9_EmbeddedUnsupported ==
    EmbeddedOther => result = Err("DigestUnsupported")

\* C9 amended: for every such d, Digest parsing of d succeeds with an
\* 'other' algorithm of that name and parsing "repo@" + d fails: with
\* DigestUnsupported when the reference grammar captures d as a digest, and
\* with ReferenceInvalidFormat when it does not.
C9_EmbeddedRejected ==
    EmbeddedOther =>
        /\ AlgorithmAsRef(dresult.val.algorithm) \notin ShaFamilies
        /\ ~result.ok
        /\ Matched => result = Err("DigestUnsupported")
        /\ ~Matched => result = Err("ReferenceInvalidFormat")

\* an md5 digest was accepted alone and rejected inside a reference
C9_Witness ==
    /\ EmbeddedOther
    /\ AlgorithmAsRef(dresult.val.algorithm) = MD5
    /\ Matched
    /\ result = Err("DigestUnsupported")

\* C10: every digest held by a parsed Reference passes Digest parsing with
\* a sha family as algorithm, so its value has the family's length and
\* only the characters 0-9a-f.
C10_DigestValidated ==
    (/\ result.ok
     /\ result.val.digest.some
     /\ dresult # NotRun
     /\ dinput = result.val.digest.val) =>
        /\ dresult.ok
        /\ dresult.val.algorithm.kind \in {"Sha256", "Sha384", "Sha512"}
        /\ Len(DigestDigest(dresult.val)) = digest_hexlen(dresult.val.algorithm)
        /\ \A k \in 1..Len(DigestDigest(dresult.val)) :
             char_is_lowercase_ascii_hex(DigestDigest(dresult.val)[k])

HasUppercase(s) == \E i \in 1..Len(s) : s[i] \in Upper

\* C11: every parsed Reference has a repository without uppercase letters;
\* an input with an uppercase repository segment ("Uppercase:tag",
\* "test:5000/Uppercase/lowercase:tag", an uppercase first segment that is
\* not a domain) is rejected with ReferenceInvalidFormat.
C11_LowercaseRepository ==
    /\ result.ok => ~HasUppercase(result.val.repository)
    /\ (Ran /\ input \in {UPPERCASE_TAG, TEST_5000_UPPERCASE, UPPERCASE_LOWERCASE_TAG})
          => result = Err("ReferenceInvalidFormat")

\* C12: every parsed Reference has a non-empty registry: the default
\* "docker.io", or the first segment of the name, which then contains "."
\* or ":" or is "localhost".
C12_RegistryNonEmpty ==
    result.ok =>
        /\ result.val.registry # <<>>
        /\ \/ result.val.registry = DOCKER_HUB_DOMAIN
           \/ /\ Contains(CapturedName, "/")
              /\ result.val.registry = NameLeft
              /\ \/ Contains(NameLeft, ".")
                 \/ Contains(NameLeft, ":")
                 \/ NameLeft = LOCALHOST

\* a name with a host:port first segment was accepted with it as registry
C12_Witness ==
    /\ result.ok
    /\ result.val.registry # DOCKER_HUB_DOMAIN
    /\ Contains(result.val.registry, ":")
    /\ result.val.registry = NameLeft

\* the registry address of a value on which no mirror was ever set
Redirected(r) ==
    IF r.registry = DOCKER_HUB_DOMAIN THEN DOCKER_HUB_DOMAIN_LEGACY ELSE r.registry

\* C13 as written: resolve_registry() returns the mirror registry most
\* recently set by a call of set_mirror_registry on this very value, and
\* without such a call "index.docker.io" for "docker.io" and registry()
\* otherwise.
C13_ResolveOwnMirror ==
    Holding =>
        resolve_registry(held) =
            IF history.own.some THEN history.own.val ELSE Redirected(held)

\* C13: resolve_registry() returns the mirror registry most recently set on
\* the value, directly or on the value it was cloned from by
\* clone_with_digest; with none set it returns "index.docker.io" when
\* registry() is "docker.io" and registry() otherwise.  A freshly parsed
\* Docker Hub reference resolves to index.docker.io while registry() stays
\* docker.io.
C13_ResolveRegistry ==
    /\ Holding =>
          resolve_registry(held) =
              IF history.held.some THEN history.held.val ELSE Redirected(held)
    /\ made # NoReference =>
          resolve_registry(made) =
              IF history.made.some THEN history.made.val ELSE Redirected(made)
    /\ (last.op = "try_from" /\ Holding /\ CapturedName = BUSYBOX) =>
          /\ resolve_registry(held) = DOCKER_HUB_DOMAIN_LEGACY
          /\ held.registry = DOCKER_HUB_DOMAIN

\* a second mirror was set on a Docker Hub reference and is the one resolved
C13_Witness ==
    /\ last.op = "set_mirror_registry"
    /\ held.registry = DOCKER_HUB_DOMAIN
    /\ last.before.mirror_registry.some
    /\ last.before.mirror_registry.val # last.arg
    /\ resolve_registry(held) = last.arg

\* C14: namespace() is Some(registry()) exactly when a mirror registry has
\* been set on the value, directly or on the value it was cloned from, and
\* None otherwise; a value fresh from parsing, with_tag or with_digest gives
\* None; a call on a value whose namespace() is Some leaves it Some.
C14_Namespace ==
    /\ Holding =>
          namespace(held) = IF history.held.some THEN Some(held.registry) ELSE None
    /\ made # NoReference =>
          namespace(made) = IF history.made.some THEN Some(made.registry) ELSE None
    /\ (Holding /\ last.op \in {"try_from", "with_tag", "with_digest"}) =>
          namespace(held) = None
    /\ (last.op \in {"set_mirror_registry", "clone_with_digest"}
            /\ namespace(last.before).some) =>
          namespace(held).some
    /\ (last.op = "clone_with_digest" /\ namespace(last.before).some) =>
          namespace(made).some

\* the clone of a mirrored Docker Hub reference reports docker.io
C14_Witness ==
    /\ last.op = "clone_with_digest"
    /\ history.made.some
    /\ made.registry = DOCKER_HUB_DOMAIN
    /\ namespace(made) = Some(DOCKER_HUB_DOMAIN)

\* C15: set_mirror_registry(m) leaves registry(), repository(), tag(),
\* digest() and whole() of the receiver as they were before the call.
C15_MirrorFrame ==
    last.op = "set_mirror_registry" =>
        /\ held.registry = last.before.registry
        /\ held.repository = last.before.repository
        /\ held.tag = last.before.tag
        /\ held.digest = last.before.digest
        /\ whole(held) = whole(last.before)

\* a call that changed resolve_registry() and namespace()
C15_Witness ==
    /\ last.op = "set_mirror_registry"
    /\ resolve_registry(held) # resolve_registry(last.before)
    /\ namespace(held) # namespace(last.before)
    /\ held.tag.some

\* C16: clone_with_digest(d) returns a Reference with the receiver's
\* registry, repository and mirror registry (so the same
\* resolve_registry()), no tag, and digest d whatever d is; the receiver is
\* as it was.
C16_CloneWithDigest ==
    last.op = "clone_with_digest" =>
        /\ made.registry = last.before.registry
        /\ made.repository = last.before.repository
        /\ made.mirror_registry = last.before.mirror_registry
        /\ resolve_registry(made) = resolve_registry(last.before)
        /\ made.tag = None
        /\ made.digest = Some(last.arg)
        /\ held = last.before

\* a tagged, mirrored reference was cloned with a text that is no digest
C16_Witness ==
    /\ last.op = "clone_with_digest"
    /\ last.before.tag.some
    /\ last.before.mirror_registry.some
    /\ ~DigestTryFrom(last.arg).ok
    /\ made.digest = Some(last.arg)

\* registry + "/" + repository, the registry segment left out when empty,
\* then ":" + tag, then "@" + digest
Rendered(r) ==
    (IF r.registry = <<>> THEN r.repository
     ELSE r.registry \o <<"/">> \o r.repository)
        \o (IF r.tag.some THEN <<":">> \o r.tag.val ELSE <<>>)
        \o (IF r.digest.some THEN <<"@">> \o r.digest.val ELSE <<>>)

\* the same, with ":" and "@" written only after a non-empty text
RenderedAfterText(r) ==
    LET name == IF r.registry = <<>> THEN r.repository
                ELSE r.registry \o <<"/">> \o r.repository
        tagged == IF r.tag.some
                  THEN (IF name = <<>> THEN <<>> ELSE name \o <<":">>) \o r.tag.val
                  ELSE name
    IN  IF r.digest.some
        THEN (IF tagged = <<>> THEN <<>> ELSE tagged \o <<"@">>) \o r.digest.val
        ELSE tagged

\* C17 as written: whole() is registry + "/" + repository, then ":" + tag
\* if present, then "@" + digest if present, without the registry segment
\* and its '/' when registry is empty; Display and String::from give the
\* same text.
C17_WholeWritten ==
    /\ Holding =>
          /\ whole(held) = Rendered(held)
          /\ fmt(held) = whole(held)
          /\ StringFrom(held) = whole(held)
    /\ made # NoReference => whole(made) = Rendered(made)
    /\ result.ok => whole(result.val) = Rendered(result.val)

\* C17: whole() is registry + "/" + repository (repository alone when
\* registry is empty), then the tag if present, then the digest if present,
\* with ":" before the tag and "@" before the digest only when the text
\* before them is not empty; Display and String::from give the same text.
C17_Whole ==
    /\ Holding =>
          /\ whole(held) = RenderedAfterText(held)
          /\ fmt(held) = whole(held)
          /\ StringFrom(held) = whole(held)
    /\ made # NoReference => whole(made) = RenderedAfterText(made)
    /\ result.ok => whole(result.val) = RenderedAfterText(result.val)

\* a reference with empty registry and repository renders as its tag alone
C17_Witness ==
    /\ Holding
    /\ held.registry = <<>>
    /\ held.repository = <<>>
    /\ held.tag.some
    /\ held.tag.val # <<>>
    /\ whole(held) = held.tag.val

DigestRan == dresult # NotRun

\* the text before the first ':' of dinput and the text after it
BeforeColon == Before(dinput, IndexOf(dinput, ":"))

AfterColon == After(dinput, IndexOf(dinput, ":"))

\* one or more non-empty runs of [a-z0-9] with single separators between
IsAlgorithmText(a) ==
    /\ a # <<>>
    /\ AllIn(a, LowerAlnum \cup {"+", ".", "_", "-"})
    /\ a[1] \in LowerAlnum
    /\ a[Len(a)] \in LowerAlnum
    /\ \A k \in 1..(Len(a) - 1) : a[k] \in LowerAlnum \/ a[k + 1] \in LowerAlnum

IsEncodedText(v) == v # <<>> /\ AllIn(v, Alnum \cup {"=", "_", "-"})

IsLowerHexOfLen(v, n) ==
    Len(v) = n /\ AllIn(v, Digit \cup {"a", "b", "c", "d", "e", "f"})

\* C18: Digest parsing accepts s exactly when s has a ':' and, with a the
\* text before the first ':' and v the text after it, a is one or more
\* non-empty [a-z0-9] components separated by single characters of + . _ -,
\* v is non-empty over [A-Za-z0-9=_-], and if a is sha256, sha384 or sha512
\* then v is 64, 96 or 128 characters of 0-9a-f.
C18_DigestAccepts ==
    DigestRan =>
        (dresult.ok <=>
            /\ Contains(dinput, ":")
            /\ IsAlgorithmText(BeforeColon)
            /\ IsEncodedText(AfterColon)
            /\ BeforeColon = SHA256 => IsLowerHexOfLen(AfterColon, 64)
            /\ BeforeColon = SHA384 => IsLowerHexOfLen(AfterColon, 96)
            /\ BeforeColon = SHA512 => IsLowerHexOfLen(AfterColon, 128))

\* a two-component algorithm with an encoded value that is no hexadecimal
\* text was accepted
C18_Witness ==
    /\ dresult.ok
    /\ \E k \in 1..Len(BeforeColon) : BeforeColon[k] \in {"+", ".", "_", "-"}
    /\ \E k \in 1..Len(AfterColon) : AfterColon[k] \in Upper \cup {"=", "_", "-"}

\* C19: for an accepted text s, as_ref() and to_string() are s,
\* algorithm().as_ref() is the text before the first ':', digest() is the
\* text after it, the typed algorithm is Sha256, Sha384, Sha512 exactly for
\* those names and Other with the name otherwise, and parsing to_string()
\* again gives an equal Digest.
C19_DigestAccessors ==
    dresult.ok =>
        /\ DigestAsRef(dresult.val) = dinput
        /\ DigestFmt(dresult.val) = dinput
        /\ AlgorithmAsRef(dresult.val.algorithm) = BeforeColon
        /\ DigestDigest(dresult.val) = AfterColon
        /\ dresult.val.algorithm.kind = "Sha256" <=> BeforeColon = SHA256
        /\ dresult.val.algorithm.kind = "Sha384" <=> BeforeColon = SHA384
        /\ dresult.val.algorithm.kind = "Sha512" <=> BeforeColon = SHA512
        /\ dresult.val.algorithm.kind \in {"Sha256", "Sha384", "Sha512", "Other"}
        /\ dresult.val.algorithm.kind = "Other" =>
              dresult.val.algorithm.name = BeforeColon
        /\ DigestTryFrom(DigestFmt(dresult.val)) = dresult

\* a digest of an algorithm outside the SHA family was parsed
C19_Witness ==
    /\ dresult.ok
    /\ dresult.val.algorithm.kind = "Other"
    /\ dresult.val.algorithm.name = MULTIHASH
    /\ DigestDigest(dresult.val) # <<>>

\* C20: Sha256Digest::from_str(h) succeeds exactly when h is 64 characters
\* of 0-9a-f, and digest() then returns h.
C20_Sha256FromStr ==
    sresult # NotRun =>
        /\ sresult.ok <=> IsLowerHexOfLen(dinput, 64)
        /\ sresult.ok => Sha256DigestDigest(sresult.val) = dinput

\* 64 lowercase hexadecimal characters were accepted
C20_Witness ==
    /\ sresult.ok
    /\ Len(dinput) = SHA256_HEXLEN
    /\ Sha256DigestDigest(sresult.val) = dinput

\* C21: for every Sha256Digest x with value h, Digest::from(x) is the Digest
\* that parsing "sha256:" + h gives (algorithm, buffer and split offset),
\* its algorithm() is Sha256, its digest() is h, and narrowing it gives x.
C21_Widening ==
    widened # NoDigest =>
        /\ DigestTryFrom(SHA256 \o <<":">> \o Sha256DigestDigest(sresult.val))
              = Ok(widened)
        /\ widened.algorithm = DigestAlgorithmFrom(SHA256)
        /\ DigestDigest(widened) = Sha256DigestDigest(sresult.val)
        /\ narrowed.of = "widened" => narrowed.result = Ok(sresult.val)

\* a Sha256Digest was widened and narrowed back
C21_Witness ==
    /\ sresult.ok
    /\ widened # NoDigest
    /\ narrowed.of = "widened"
    /\ narrowed.result.ok
    /\ Len(DigestDigest(widened)) = SHA256_HEXLEN

\* C22: narrowing a parsed Digest to a Sha256Digest succeeds exactly when
\* its algorithm is Sha256, giving its 64-character value; for any other
\* algorithm it fails with the algorithm-mismatch error.
C22_Narrowing ==
    narrowed.of = "parsed" =>
        /\ narrowed.result.ok <=> dresult.val.algorithm.kind = "Sha256"
        /\ narrowed.result.ok =>
              /\ Sha256DigestDigest(narrowed.result.val) = DigestDigest(dresult.val)
              /\ Len(Sha256DigestDigest(narrowed.result.val)) = SHA256_HEXLEN
        /\ ~narrowed.result.ok =>
              narrowed.result = Err("Expected algorithm sha256 but found")

\* the split offset of d is that of the only ':' of the buffer, text follows
\* it, and the algorithm name is the text before it
SplitOffsetHolds(d) ==
    /\ d.split + 1 < Len(d.value)
    /\ d.value[d.split + 1] = ":"
    /\ \A k \in 1..Len(d.value) : d.value[k] = ":" => k = d.split + 1
    /\ DigestDigest(d) # <<>>
    /\ AlgorithmAsRef(d.algorithm) = SubSeq(d.value, 1, d.split)

\* C29: in every Digest, parsed or widened from a Sha256Digest, split is the
\* offset of the only ':' of the buffer, split + 1 is less than the buffer
\* length, so digest() is not empty, and algorithm().as_ref() is the buffer
\* text before the offset.
C29_SplitOffset ==
    /\ dresult.ok => SplitOffsetHolds(dresult.val)
    /\ widened # NoDigest => SplitOffsetHolds(widened)

\* a parsed Digest whose value is a single character
C29_Witness ==
    /\ dresult.ok
    /\ dresult.val.split > 1
    /\ dresult.val.split + 2 = Len(dresult.val.value)
    /\ Len(DigestDigest(dresult.val)) = 1

\* the input up to its '@', and the places of its last '/' and last ':'
WrittenUndigested ==
    IF Contains(input, "@") THEN Before(input, IndexOf(input, "@")) ELSE input

WrittenTagAt ==
    IF LastIndexOf(WrittenUndigested, ":") > LastIndexOf(WrittenUndigested, "/")
    THEN LastIndexOf(WrittenUndigested, ":")
    ELSE 0

\* the name and the tag as written: the tag follows the last ':' when no
\* '/' comes after it
WrittenName ==
    IF WrittenTagAt = 0 THEN WrittenUndigested
    ELSE Before(WrittenUndigested, WrittenTagAt)

WrittenTag == After(WrittenUndigested, WrittenTagAt)

\* the segments of the written name that belong to the repository: all of
\* them, but for a first segment that counts as a domain
WrittenSegments == Split(WrittenName, {"/"})

WrittenFirstIsDomain ==
    /\ Len(WrittenSegments) > 1
    /\ \/ Contains(WrittenSegments[1], ".")
       \/ Contains(WrittenSegments[1], ":")
       \/ WrittenSegments[1] = LOCALHOST

UppercaseRepositorySegment ==
    \E i \in 1..Len(WrittenSegments) :
        /\ i = 1 => ~WrittenFirstIsDomain
        /\ HasUppercase(WrittenSegments[i])

MalformedTag ==
    /\ WrittenTagAt # 0
    /\ IsName(WrittenName)
    /\ ~IsTag(WrittenTag)

NeverUppercaseOrTagError ==
    Ran => result \notin {Err("NameContainsUppercase"), Err("TagInvalidFormat")}

UppercaseSegmentRejected ==
    (Ran /\ UppercaseRepositorySegment) => result = Err("ReferenceInvalidFormat")

MalformedTagRejected ==
    (Ran /\ MalformedTag) => result = Err("ReferenceInvalidFormat")

\* C23: no input makes Reference parsing return NameContainsUppercase or
\* TagInvalidFormat; an input with an uppercase repository segment or with
\* a malformed tag is rejected with ReferenceInvalidFormat.
C23_FoldedIntoInvalidFormat ==
    /\ NeverUppercaseOrTagError
    /\ UppercaseSegmentRejected
    /\ MalformedTagRejected

\* C24: whatever the interleaving of the threads, the recognizer is
\* initialised at most once, no thread reads it before its initialisation
\* has completed, and every parse returns what it returns when run alone.
C24_InitialisedOnce ==
    /\ RE \in {"unset", "compiled"}
    /\ Cardinality({t \in Threads : pc[t] = "init"}) <= 1
    /\ \A t \in Threads :
          /\ pc[t] = "captures" => (once = "complete" /\ RE = "compiled")
          /\ pc[t] = "done" => tresult[t] = ReferenceTryFrom(tinput[t])

\* every thread had a text to match, so all of them went through RE, and
\* all have returned
C24_Witness ==
    /\ \A t \in Threads : pc[t] = "done" /\ tinput[t] # <<>>
    /\ \E t \in Threads : tresult[t].ok
    /\ \E t \in Threads : tresult[t] = Err("ReferenceInvalidFormat")
    /\ RE = "compiled"

DigestErrors == {Err("DigestInvalidFormat"), Err("DigestInvalidLength"),
                 Err("DigestUnsupported")}

\* C25: Reference parsing reports the first failing check in the order
\* empty input (NameEmpty), grammar mismatch (ReferenceInvalidFormat),
\* repository longer than 255 (NameTooLong), then the digest checks:
\* NameEmpty is returned for the empty text only, and an over-long
\* repository with a bad digest gives NameTooLong.
C25_ErrorOrder ==
    Ran =>
        /\ result = Err("NameEmpty") <=> input = <<>>
        /\ (input # <<>> /\ ~Matched) => result = Err("ReferenceInvalidFormat")
        /\ result = Err("ReferenceInvalidFormat") => (input # <<>> /\ ~Matched)
        /\ (input # <<>> /\ Matched /\ Len(SplitRepository) > NAME_TOTAL_LENGTH_MAX)
              => result = Err("NameTooLong")
        /\ result \in DigestErrors =>
              /\ Matched
              /\ Len(SplitRepository) <= NAME_TOTAL_LENGTH_MAX
              /\ CapturedDigest.some

\* an over-long repository with a digest of the wrong length, and NameTooLong
C25_Witness ==
    /\ Ran
    /\ Matched
    /\ Len(SplitRepository) > NAME_TOTAL_LENGTH_MAX
    /\ CapturedDigest.some
    /\ CapturedAlgorithm = SHA256
    /\ Len(CapturedValue) # SHA256_HEXLEN
    /\ result = Err("NameTooLong")

\* the fixed length of a recognized hash family, 0 for any other name
FamilyLength(a) ==
    IF a = SHA256 THEN 64
    ELSE IF a = SHA384 THEN 96
    ELSE IF a = SHA512 THEN 128
    ELSE 0

\* the first violation of dinput in the order of the claim, "" when none
FirstViolation ==
    IF ~Contains(dinput, ":") THEN "separator"
    ELSE IF ~IsAlgorithmText(BeforeColon) THEN "algorithm"
    ELSE IF AfterColon = <<>> THEN "empty value"
    ELSE IF ~AllIn(AfterColon, Alnum \cup {"=", "_", "-"}) THEN "encoded"
    ELSE IF FamilyLength(BeforeColon) = 0 THEN ""
    ELSE IF Len(AfterColon) # FamilyLength(BeforeColon) THEN "length"
    ELSE IF ~AllIn(AfterColon, Digit \cup {"a", "b", "c", "d", "e", "f"}) THEN "hex"
    ELSE ""

\* C26: Digest parsing reports the first violation in the order: missing
\* ':', empty or invalid algorithm component, empty value, value character
\* outside the encoded class, then for a recognized family wrong length,
\* then non-hexadecimal character; the last two are different errors.
C26_DigestErrorOrder ==
    DigestRan =>
        /\ FirstViolation = "" <=> dresult.ok
        /\ FirstViolation = "separator" <=> dresult = Err("missing ':' in digest")
        /\ FirstViolation = "algorithm" <=>
              dresult \in {Err("Empty algorithm component"),
                           Err("Invalid algorithm component")}
        /\ FirstViolation = "empty value" <=> dresult = Err("Empty algorithm value")
        /\ FirstViolation = "encoded" <=> dresult = Err("Invalid encoded value")
        /\ FirstViolation = "length" <=> dresult = Err("Invalid digest length")
        /\ FirstViolation = "hex" <=>
              dresult = Err("Invalid non-hexadecimal character in digest")

\* a sha256 value of the wrong length with uppercase letters got the length
\* error
C26_Witness ==
    /\ DigestRan
    /\ BeforeColon = SHA256
    /\ Len(AfterColon) # SHA256_HEXLEN
    /\ HasUppercase(AfterColon)
    /\ dresult = Err("Invalid digest length")

\* C27: every Reference reached by parsing, with_tag, with_digest,
\* clone_with_digest and set_mirror_registry has a tag or a digest; one
\* made by with_tag has a tag and no digest, one made by with_digest or
\* clone_with_digest a digest and no tag.
C27_TagOrDigestKept ==
    /\ result.ok => (result.val.tag.some \/ result.val.digest.some)
    /\ (last.op \in {"with_tag", "with_digest", "set_mirror_registry",
                     "clone_with_digest", "use_clone"}
          \/ (last.op = "try_from" /\ result.ok)) =>
          (held.tag.some \/ held.digest.some)
    /\ last.op = "with_tag" => (held.tag.some /\ ~held.digest.some)
    /\ last.op = "with_digest" => (held.digest.some /\ ~held.tag.some)
    /\ last.op = "clone_with_digest" => (made.digest.some /\ ~made.tag.some)
    /\ last.op = "use_clone" => (held.digest.some /\ ~held.tag.some)

\* after an earlier call, a mirror was set on a reference that has a digest
\* and no tag
C27_Witness ==
    /\ last.op = "set_mirror_registry"
    /\ history.own.some
    /\ ops >= 2
    /\ held.digest.some
    /\ ~held.tag.some
    /\ held.repository # <<>>

\* C28: no input makes Reference parsing return DigestInvalidFormat: a
\* digest captured by the grammar always has a ':', and every digest
\* failure is DigestInvalidLength or DigestUnsupported.
C28_NoDigestInvalidFormat ==
    Ran =>
        /\ result # Err("DigestInvalidFormat")
        /\ (input # <<>> /\ Matched /\ CapturedDigest.some) =>
              Contains(CapturedDigest.val, ":")
        /\ (input # <<>> /\ Matched /\ CapturedDigest.some /\ ~result.ok
              /\ result # Err("NameTooLong")) =>
              result \in {Err("DigestInvalidLength"), Err("DigestUnsupported")}

\* a sha512 digest of the wrong length was captured and rejected
C28_Witness ==
    /\ Ran
    /\ Matched
    /\ CapturedDigest.some
    /\ CapturedAlgorithm = SHA512
    /\ result = Err("DigestInvalidLength")

\* splitting registry + "/" + repository of split_domain(n) gives the pair again
SplitAgain(n) ==
    split_domain(split_domain(n)[1] \o <<"/">> \o split_domain(n)[2])
        = split_domain(n)

\* C30: split_domain is idempotent on its own output: if split_domain(n) is
\* (registry, repository) then split_domain(registry + "/" + repository) is
\* (registry, repository); so the full name of a parsed Reference splits
\* into its registry and repository.
C30_SplitIdempotent ==
    Ran =>
        /\ SplitAgain(input)
        /\ (input # <<>> /\ Matched) => SplitAgain(CapturedName)
        /\ result.ok =>
              split_domain(full_name(result.val))
                  = <<result.val.registry, result.val.repository>>

\* a legacy-alias name of one segment was parsed: its split form has the
\* rewritten registry and the library/ prefix
C30_Witness ==
    /\ result.ok
    /\ NameLeft = DOCKER_HUB_DOMAIN_LEGACY
    /\ ~Contains(NameRight, "/")
    /\ result.val.registry = DOCKER_HUB_DOMAIN
    /\ split_domain(full_name(result.val))
          = <<result.val.registry, result.val.repository>>

====
